---- MODULE Spec2Model ----
(***************************************************************************)
(* Session/event broker of the ADK agent simulator ("Remote Brain").       *)
(*                                                                         *)
(* The module models, as state machines over one set of variables:         *)
(*   - RequestQueue        (adk_agent_sim/server/queue.py), including the   *)
(*     asyncio.Queue it is built on (items + FIFO of waiting getters);      *)
(*   - EventBroadcaster    (adk_agent_sim/server/broadcaster.py);           *)
(*   - the event store     (tests/fixtures/fake_event_repo.py);             *)
(*   - the SimulatorService RPCs and the client's listen loop.             *)
(* Each component has its own specification (SpecQueue, SpecBroker, ...);   *)
(* the variables a specification does not use keep their initial value.     *)
(***************************************************************************)
EXTENDS Integers, Sequences, FiniteSets, TLC

VARIABLES
  \* ---- RequestQueue (queue.py) ----
  queues,      \* _queues: session -> items of the session's asyncio.Queue
  getters,     \* asyncio.Queue._getters: session -> FIFO of waiting tasks [kind, k]
  peeked,      \* _peeked: session -> event | None
  dq,          \* dequeue callers: task -> [pc, s]
  \* ---- history (ghost) variables of the queue ----
  enqLog,      \* session -> events in the order enqueue() accepted them
  retLog,      \* session -> events in the order dequeue() returned them
  peekHold,    \* session -> event get_current() returned since the last dequeue return
  lastRet,     \* session -> [ev, held] of the most recent dequeue return
  clock,       \* source of fresh event ids / timestamps
  \* ---- event store (FakeEventRepository._events) ----
  store,       \* list of persisted events, in insertion order
  \* ---- EventBroadcaster ----
  subscribers, \* _subscribers: session -> set of subscriber queues
  subKeys,     \* the sessions that are keys of the _subscribers dict
  chan,        \* subscriber -> items waiting in its asyncio.Queue
  lock,        \* per-session lock: "free" or the subscriber holding it
  sub,         \* subscriber -> [pc, s, hist, n]: position in subscribe()
  out,         \* subscriber -> events the stream has yielded so far
  \* ---- SimulatorService RPC handlers in flight ----
  rpc,         \* task -> [pc, s, ev]
  \* ---- history (ghost) variables of the broker ----
  bcastLog,    \* session -> events in the order broadcast() delivered them
  regAt,       \* subscriber -> Len(bcastLog[s]) when it registered
  allMatched,  \* session -> every decision so far found its own turn at the queue head
  \* ---- client: PendingFutureRegistry and the listen loop ----
  registry,    \* _futures: the turn_ids that have a pending future
  fut,         \* turn_id -> [state, result] of the future created for it
  lastResolve, \* [n, turn, payload, ret]: the n-th and most recent resolve() call
  \* ---- history (ghost) variables of the client ----
  firstResp,   \* turn_id -> payload of the first Response delivered for it
  fulfilCount, \* turn_id -> number of times a result was set on its future
  delivered,   \* number of events the listen loop has received
  \* ---- SessionRepository and a caller paging through list_all ----
  sessionRows, \* the sessions table: row id -> created_at, in insertion order
  pageSize,    \* the caller's page_size
  pageToken,   \* the page_token the caller passes next
  collected,   \* ids of the sessions the caller has been given so far
  pager,       \* "idle" | "paging" | "done": the caller stops when no token is returned
  issued,      \* the next_page_tokens list_all has returned so far
  lastList,    \* the most recent list_all call: its token, page_size and result
  \* ---- SimulatorPlugin lifecycle (plugin/core.py) ----
  plugSession, \* session_id: 0 (None) until initialize() stores the created id
  created,     \* server side: who created each session, in creation order
  listenTask,  \* _listen_task: "none" | "started" | "streaming" | "failed" | "ended" | "cancelled"
  plugClose,   \* close(): "no" | "closed" | "raised"
  subscribeLog, \* session_id of every SubscribeRequest the listen loop has sent
  waited,      \* the delays the listen loop has slept, in order
  failures,    \* number of times the Subscribe stream raised
  \* ---- sessions table: further columns (session_repo.py) ----
  sessionStatus, \* row id -> status column
  sessionDesc,   \* row id -> description stored in proto_blob
  \* ---- SessionManager (session_manager.py) ----
  activeSessions, \* _active_sessions: session id -> cached object, 0 if absent
  objCount,    \* SimulatorSession objects this process has constructed
  getLog,      \* [id, ref, read] of every get_session call of this process
  sessLast,    \* [op, id, st, ret, n]: the n-th and most recent create/update call
  \* ---- SimulatorClient (plugin/client.py) ----
  cliConn,     \* _channel / _stub are set
  cliSession,  \* _session_id: 0 (None) or the id create_session stored
  cliSent,     \* the RPCs the stub has sent, in order
  cliLast,     \* [op, err, n, seen]: the n-th and most recent client call, errors so far
  \* ---- interception (plugin/core.py) ----
  targetAgents, \* target_agents
  lastCall,    \* [agent, passed, n]: the n-th and most recent before_model_callback
  \* ---- persistence failures seen by the RPC handlers ----
  insertErrors, \* number of inserts that raised
  \* ---- EventRepository: the events table ----
  eventRows,   \* rows [event_id, session_id, timestamp, turn_id, payload_type, proto_blob]
  inserted     \* (ghost) the events handed to insert(), in order

qvars == <<queues, getters, peeked, dq, enqLog, retLog, peekHold, lastRet>>

bvars == <<store, subscribers, subKeys, chan, lock, sub, out, rpc, bcastLog, regAt, allMatched>>

cvars == <<registry, fut, lastResolve, firstResp, fulfilCount, delivered>>

pvars == <<sessionRows, pageSize, pageToken, collected, pager, issued, lastList>>

lvars == <<plugSession, created, listenTask, plugClose, subscribeLog, waited, failures>>

\* columns of the sessions table beside created_at
tvars == <<sessionStatus, sessionDesc>>

mvars == <<activeSessions, objCount, getLog, sessLast>>

kvars == <<cliConn, cliSession, cliSent, cliLast>>

ivars == <<targetAgents, lastCall>>

evars == <<insertErrors>>

\* the events table and the events handed to EventRepository.insert
rvars == <<eventRows, inserted>>

yvars == <<tvars, mvars, kvars, ivars, evars, rvars>>

xvars == <<pvars, lvars, yvars>>

vars == <<queues, getters, peeked, dq, enqLog, retLog, peekHold, lastRet, clock,
          store, subscribers, subKeys, chan, lock, sub, out, rpc, bcastLog, regAt, allMatched,
          registry, fut, lastResolve, firstResp, fulfilCount, delivered,
          sessionRows, pageSize, pageToken, collected, pager, issued, lastList,
          plugSession, created, listenTask, plugClose, subscribeLog, waited, failures,
          sessionStatus, sessionDesc, activeSessions, objCount, getLog, sessLast,
          cliConn, cliSession, cliSent, cliLast, targetAgents, lastCall, insertErrors,
          eventRows, inserted>>

----------------------------------------------------------------------------
\* Bounds of the model
MaxEvents == 3      \* events created in one run
MaxDq == 2          \* concurrent dequeue callers

Sessions == {"s1", "s2"}
Turns == {"t1", "t2"}
\* a turn_id the client never generates
UnknownTurn == "tx"
AllTurns == Turns \cup {UnknownTurn}
MaxRpc == 2         \* concurrent SubmitRequest/SubmitDecision handlers
MaxDeliver == 4     \* events handed to the listen loop in SpecClient

DqTasks == 1..MaxDq
RpcTasks == 1..MaxRpc
Subs == {"c1", "c2"}
Payloads == {"p1", "p2"}
None == [id |-> 0]

\* a handler slot with no call in flight
IdleRpc == [pc |-> "idle", s |-> "s1", ev |-> None]

\* handler slots and subscriber slots are interchangeable: a new call takes
\* the first free slot
FreeRpc(k) == rpc[k].pc = "idle" /\ \A j \in RpcTasks : j < k => rpc[j].pc # "idle"

FreeSub(c) == sub[c].pc = "idle" /\ (c = "c2" => sub["c1"].pc # "idle")

\* a turn for which no future was created
NoFuture == [state |-> "none", result |-> ""]

\* SessionEvent(event_id, session_id, timestamp, turn_id, payload oneof)
Event(n, s, t, k, p) ==
  [id |-> n, session |-> s, ts |-> n, turn |-> t, kind |-> k, payload |-> p]

Range(f) == {f[i] : i \in 1..Len(f)}

Count(e, f) == Cardinality({i \in 1..Len(f) : f[i] = e})

IsPrefix(a, b) ==
  /\ Len(a) <= Len(b)
  /\ \A i \in 1..Len(a) : a[i] = b[i]

----------------------------------------------------------------------------
\* asyncio.Queue primitives used by RequestQueue

\* Queue.put_nowait: append the item, then _wakeup_next(_getters): the first
\* waiting getter's future is completed; its task resumes later.
MutQPutItems(s, e) == [x \in Sessions |-> Append(queues[x], e)]

QPutItems(s, e) == [queues EXCEPT ![s] = Append(@, e)]

QWakeGetters(s) == [getters EXCEPT ![s] = IF @ = <<>> THEN @ ELSE Tail(@)]

QWakeDq(s) ==
  IF getters[s] # <<>> /\ Head(getters[s]).kind = "dq"
  THEN [dq EXCEPT ![Head(getters[s]).k].pc = "woken"]
  ELSE dq

\* the same when the first waiting getter is a submit_decision handler
QWakeRpc(s) ==
  IF getters[s] # <<>> /\ Head(getters[s]).kind = "rpc"
  THEN [rpc EXCEPT ![Head(getters[s]).k].pc = "d_woken"]
  ELSE rpc

\* RequestQueue.enqueue
QEnqueue(s, e) ==
  /\ queues' = QPutItems(s, e)
  /\ getters' = QWakeGetters(s)
  /\ dq' = QWakeDq(s)
  /\ enqLog' = [enqLog EXCEPT ![s] = Append(@, e)]

\* the bookkeeping of a dequeue() return (history variables only)
QReturned(s, e) ==
  /\ retLog' = [retLog EXCEPT ![s] = Append(@, e)]
  /\ lastRet' = [lastRet EXCEPT ![s] = [ev |-> e, held |-> peekHold[s]]]
  /\ peekHold' = [peekHold EXCEPT ![s] = None]

\* RequestQueue.dequeue, first part: the peeked event if there is one
DequeueTakesPeeked(s) == peeked[s] # None

\* Queue.get() on a non-empty queue: get_nowait() removes the head
QHead(s) == Head(queues[s])

MutQRest(s) == queues[s]

QRest(s) == Tail(queues[s])

\* a dequeue() that returns at once: the peeked event, else the queue's head
QTake(s) ==
  IF DequeueTakesPeeked(s)
  THEN /\ peeked' = [peeked EXCEPT ![s] = None]
       /\ QReturned(s, peeked[s])
       /\ UNCHANGED queues
  ELSE /\ queues' = [queues EXCEPT ![s] = QRest(s)]
       /\ QReturned(s, QHead(s))
       /\ UNCHANGED peeked

\* RequestQueue.dequeue called by task k
DequeueCall(k, s) ==
  /\ dq[k].pc = "idle"
  /\ IF DequeueTakesPeeked(s) \/ queues[s] # <<>>
     THEN /\ QTake(s)
          /\ dq' = [dq EXCEPT ![k] = [pc |-> "idle", s |-> "s1"]]
          /\ UNCHANGED getters
     ELSE \* while self.empty(): getter = create_future(); await getter
          /\ getters' = [getters EXCEPT ![s] = Append(@, [kind |-> "dq", k |-> k])]
          /\ dq' = [dq EXCEPT ![k] = [pc |-> "waiting", s |-> s]]
          /\ UNCHANGED <<queues, peeked, retLog, lastRet, peekHold>>
  /\ UNCHANGED <<enqLog, clock>>
  /\ UNCHANGED <<bvars, cvars, xvars>>

\* a woken getter resumes inside Queue.get(): it re-tests empty()
DequeueResume(k) ==
  /\ dq[k].pc = "woken"
  /\ LET s == dq[k].s IN
     IF queues[s] # <<>>
     THEN /\ queues' = [queues EXCEPT ![s] = QRest(s)]
          /\ QReturned(s, QHead(s))
          /\ dq' = [dq EXCEPT ![k] = [pc |-> "idle", s |-> "s1"]]
          /\ UNCHANGED getters
     ELSE /\ getters' = [getters EXCEPT ![s] = Append(@, [kind |-> "dq", k |-> k])]
          /\ dq' = [dq EXCEPT ![k].pc = "waiting"]
          /\ UNCHANGED <<queues, retLog, lastRet, peekHold>>
  /\ UNCHANGED <<peeked, enqLog, clock>>
  /\ UNCHANGED <<bvars, cvars, xvars>>

\* RequestQueue.get_current: the value it returns in the current state
GetCurrentResult(s) ==
  IF peeked[s] # None THEN peeked[s]
  ELSE IF queues[s] = <<>> THEN None
  ELSE QHead(s)

\* RequestQueue.get_current
GetCurrent(s) ==
  /\ IF peeked[s] # None \/ queues[s] = <<>>
     THEN UNCHANGED <<queues, peeked>>
     ELSE /\ queues' = [queues EXCEPT ![s] = QRest(s)]
          /\ peeked' = [peeked EXCEPT ![s] = QHead(s)]
  /\ peekHold' = [peekHold EXCEPT ![s] =
                    IF GetCurrentResult(s) # None THEN GetCurrentResult(s) ELSE @]
  /\ UNCHANGED <<getters, dq, enqLog, retLog, lastRet, clock>>
  /\ UNCHANGED <<bvars, cvars, xvars>>

\* is_empty that looks at the queue only
MutIsEmpty(s) == queues[s] = <<>>

\* RequestQueue.is_empty
is_empty(s) ==
  LET has_peeked == peeked[s] # None
      has_queued == queues[s] # <<>>
  IN  ~has_peeked /\ ~has_queued

\* a caller enqueues a fresh event
Enqueue(s, t) ==
  /\ clock <= MaxEvents
  /\ QEnqueue(s, Event(clock, s, t, "req", "rq"))
  /\ clock' = clock + 1
  /\ UNCHANGED <<peeked, retLog, lastRet, peekHold>>
  /\ UNCHANGED <<bvars, cvars, xvars>>

QInit ==
  /\ queues = [s \in Sessions |-> <<>>]
  /\ getters = [s \in Sessions |-> <<>>]
  /\ peeked = [s \in Sessions |-> None]
  /\ dq = [k \in DqTasks |-> [pc |-> "idle", s |-> "s1"]]
  /\ enqLog = [s \in Sessions |-> <<>>]
  /\ retLog = [s \in Sessions |-> <<>>]
  /\ peekHold = [s \in Sessions |-> None]
  /\ lastRet = [s \in Sessions |-> [ev |-> None, held |-> None]]
  /\ clock = 1

BInit ==
  /\ store = <<>>
  /\ subscribers = [s \in Sessions |-> {}]
  /\ subKeys = {}
  /\ chan = [c \in Subs |-> <<>>]
  /\ lock = [s \in Sessions |-> "free"]
  /\ sub = [c \in Subs |-> [pc |-> "idle", s |-> "s1", hist |-> <<>>, n |-> 1]]
  /\ out = [c \in Subs |-> <<>>]
  /\ rpc = [k \in RpcTasks |-> IdleRpc]
  /\ bcastLog = [s \in Sessions |-> <<>>]
  /\ regAt = [c \in Subs |-> 0]
  /\ allMatched = [s \in Sessions |-> TRUE]

CInit ==
  /\ registry = {}
  /\ fut = [t \in AllTurns |-> NoFuture]
  /\ lastResolve = [n |-> 0, turn |-> "", payload |-> "", ret |-> FALSE]
  /\ firstResp = [t \in AllTurns |-> "none"]
  /\ fulfilCount = [t \in AllTurns |-> 0]
  /\ delivered = 0

\* a request without page_token (the proto default "" is falsy as well)
NoToken == [enc |-> "none", text |-> <<>>]

\* SessionRepository over a fresh database: no rows, no call made yet
PInit ==
  /\ sessionRows = <<>>
  /\ pageSize = 1
  /\ pageToken = NoToken
  /\ collected = <<>>
  /\ pager = "idle"
  /\ issued = {}
  /\ lastList = [token |-> NoToken, size |-> 1, err |-> FALSE, ids |-> <<>>,
                 next |-> NoToken, first |-> <<>>, foreign |-> FALSE]

\* SimulatorPlugin.__init__
LInit ==
  /\ plugSession = 0
  /\ created = <<>>
  /\ listenTask = "none"
  /\ plugClose = "no"
  /\ subscribeLog = <<>>
  /\ waited = <<>>
  /\ failures = 0

\* the further columns of the empty sessions table
TInit ==
  /\ sessionStatus = <<>>
  /\ sessionDesc = <<>>

MaxSessionIds == 3  \* session ids a SessionManager caller may name

SessionIds == 1..MaxSessionIds

\* SessionManager.__init__: an empty cache
MInit ==
  /\ activeSessions = [i \in SessionIds |-> 0]
  /\ objCount = 0
  /\ getLog = <<>>
  /\ sessLast = [op |-> "none", id |-> 0, st |-> "", ret |-> FALSE, n |-> 0]

\* SimulatorClient.__init__
KInit ==
  /\ cliConn = FALSE
  /\ cliSession = 0
  /\ cliSent = <<>>
  /\ cliLast = [op |-> "none", err |-> "none", n |-> 0, seen |-> {}]

\* no before_model_callback has run
NoCall == [agent |-> "", passed |-> FALSE, n |-> 0]

\* SimulatorPlugin(target_agents=None) without ADK_SIM_TARGETS: intercept all
IInit ==
  /\ targetAgents = {}
  /\ lastCall = NoCall

EInit == insertErrors = 0

\* the events table is empty
RInit ==
  /\ eventRows = <<>>
  /\ inserted = <<>>

BaseInit == QInit /\ BInit /\ CInit /\ PInit /\ LInit /\ TInit /\ MInit /\ KInit /\ EInit /\ RInit

QueueInit == BaseInit /\ IInit

QueueNext ==
  \/ \E s \in Sessions, t \in Turns : Enqueue(s, t)
  \/ \E k \in DqTasks, s \in Sessions : DequeueCall(k, s)
  \/ \E k \in DqTasks : DequeueResume(k)
  \/ \E s \in Sessions : GetCurrent(s)

SpecQueue == QueueInit /\ [][QueueNext]_vars

----------------------------------------------------------------------------
\* Event store: FakeEventRepository

\* insert(): append to the list
MutInsert(e) == store

Insert(e) == Append(store, e)

\* the matching events left in insertion order
MutInsertByTs(e, sorted) == Append(sorted, e)

\* sorted(matching, key=timestamp): stable insertion of e into a sorted list
RECURSIVE InsertByTs(_, _)
InsertByTs(e, sorted) ==
  IF sorted = <<>> THEN <<e>>
  ELSE IF Head(sorted).ts <= e.ts
       THEN <<Head(sorted)>> \o InsertByTs(e, Tail(sorted))
       ELSE <<e>> \o sorted

RECURSIVE SortByTs(_)
SortByTs(list) ==
  IF list = <<>> THEN <<>>
  ELSE InsertByTs(list[Len(list)], SortByTs(SubSeq(list, 1, Len(list) - 1)))

\* get_by_session(): the session's events ordered by timestamp
GetBySession(s) ==
  LET matching == SelectSeq(store, LAMBDA e : e.session = s)
  IN  SortByTs(matching)

----------------------------------------------------------------------------
\* EventBroadcaster

\* the synthetic HistoryComplete{event_count} marker (no event_id)
HistoryComplete(s, count) ==
  [id |-> 0, session |-> s, ts |-> 0, turn |-> "", kind |-> "hc", payload |-> count]

\* broadcast(): put the event on the queue of every subscriber of the session
MutDeliverOne(s, e) ==
  LET first == CHOOSE c \in subscribers[s] : TRUE
  IN  [c \in Subs |-> IF c = first THEN Append(chan[c], e) ELSE chan[c]]

MutDeliver(s, e) ==
  [c \in Subs |-> IF c \in subscribers[s] THEN <<e>> \o chan[c] ELSE chan[c]]

Deliver(s, e) ==
  [c \in Subs |-> IF c \in subscribers[s] THEN Append(chan[c], e) ELSE chan[c]]

\* broadcast(): if session_id not in self._subscribers: return
MutHasSubscribers(s) == TRUE

HasSubscribers(s) == s \in subKeys

\* broadcast() onto queues that hold one event at most: put waits for room
MutBroadcast(s, e) ==
  /\ lock[s] = "free"
  /\ \A c \in subscribers[s] : chan[c] = <<>>
  /\ IF HasSubscribers(s)
     THEN /\ chan' = Deliver(s, e)
          /\ subKeys' = subKeys \cup {s}
     ELSE UNCHANGED <<chan, subKeys>>
  /\ bcastLog' = [bcastLog EXCEPT ![s] = Append(@, e)]

\* broadcast() once it holds the session lock; going on to the loop looks
\* the session up in the defaultdict, which makes it a key
Broadcast(s, e) ==
  /\ lock[s] = "free"
  /\ IF HasSubscribers(s)
     THEN /\ chan' = Deliver(s, e)
          /\ subKeys' = subKeys \cup {s}
     ELSE UNCHANGED <<chan, subKeys>>
  /\ bcastLog' = [bcastLog EXCEPT ![s] = Append(@, e)]

\* subscriber_count(): len(self._subscribers.get(session_id, set()))
subscriber_count(s) == IF s \in subKeys THEN Cardinality(subscribers[s]) ELSE 0

\* subscribe(), first part: take the session lock and fetch the history
SubscribeFetch(c, s) ==
  /\ FreeSub(c)
  /\ lock[s] = "free"
  /\ lock' = [lock EXCEPT ![s] = c]
  /\ sub' = [sub EXCEPT ![c] = [pc |-> "fetched", s |-> s,
                                hist |-> GetBySession(s), n |-> 1]]
  /\ UNCHANGED <<store, subscribers, subKeys, chan, out, rpc, bcastLog, regAt, allMatched>>
  /\ UNCHANGED <<qvars, clock, cvars, xvars>>

\* subscribe(): register a fresh queue for the session, release the lock
Register(c) ==
  /\ sub[c].pc = "fetched"
  /\ subscribers' = [subscribers EXCEPT ![sub[c].s] = @ \cup {c}]
  /\ subKeys' = subKeys \cup {sub[c].s}
  /\ chan' = [chan EXCEPT ![c] = <<>>]
  /\ regAt' = [regAt EXCEPT ![c] = Len(bcastLog[sub[c].s])]
  /\ lock' = [lock EXCEPT ![sub[c].s] = "free"]
  /\ sub' = [sub EXCEPT ![c].pc = "replay"]
  /\ UNCHANGED <<store, out, rpc, bcastLog, allMatched>>
  /\ UNCHANGED <<qvars, clock, cvars, xvars>>

\* subscribe(): yield the next historical event
YieldHistoryStep(c) ==
  /\ sub[c].pc = "replay"
  /\ sub[c].n <= Len(sub[c].hist)
  /\ out' = [out EXCEPT ![c] = Append(@, sub[c].hist[sub[c].n])]
  /\ sub' = [sub EXCEPT ![c].n = @ + 1]
  /\ UNCHANGED <<store, subscribers, subKeys, chan, lock, rpc, bcastLog, regAt, allMatched>>
  /\ UNCHANGED <<qvars, clock>>

YieldHistory(c) == YieldHistoryStep(c) /\ UNCHANGED <<cvars, xvars>>

\* subscribe(): after the replay, yield the HistoryComplete marker
YieldMarkerStep(c) ==
  /\ sub[c].pc = "replay"
  /\ sub[c].n > Len(sub[c].hist)
  /\ out' = [out EXCEPT ![c] = Append(@, HistoryComplete(sub[c].s, Len(sub[c].hist)))]
  /\ sub' = [sub EXCEPT ![c].pc = "live"]
  /\ UNCHANGED <<store, subscribers, subKeys, chan, lock, rpc, bcastLog, regAt, allMatched>>
  /\ UNCHANGED <<qvars, clock>>

YieldMarker(c) == YieldMarkerStep(c) /\ UNCHANGED <<cvars, xvars>>

\* subscribe(): event = await queue.get(); yield event
YieldLiveStep(c) ==
  /\ sub[c].pc = "live"
  /\ chan[c] # <<>>
  /\ out' = [out EXCEPT ![c] = Append(@, Head(chan[c]))]
  /\ chan' = [chan EXCEPT ![c] = Tail(@)]
  /\ UNCHANGED <<store, subscribers, subKeys, lock, sub, rpc, bcastLog, regAt, allMatched>>
  /\ UNCHANGED <<qvars, clock>>

YieldLive(c) == YieldLiveStep(c) /\ UNCHANGED <<cvars, xvars>>

\* subscribe(), finally: self._subscribers[session_id].discard(queue)
MutDiscard(c) == subscribers[sub[c].s]

Discard(c) == subscribers[sub[c].s] \ {c}

\* subscribe(), finally: the consumer closes the stream; the queue is
\* discarded and an empty subscriber set is deleted
Detach(c) ==
  /\ sub[c].pc \in {"replay", "live"}
  /\ subscribers' = [subscribers EXCEPT ![sub[c].s] = Discard(c)]
  /\ subKeys' = IF Discard(c) = {} THEN subKeys \ {sub[c].s}
                ELSE subKeys \cup {sub[c].s}
  /\ sub' = [sub EXCEPT ![c].pc = "closed"]
  /\ UNCHANGED <<store, chan, lock, out, rpc, bcastLog, regAt, allMatched>>
  /\ UNCHANGED <<qvars, clock, cvars, xvars>>

----------------------------------------------------------------------------
\* SimulatorService

\* submit_request: build the Request event and persist it
SubmitRequestPersist(k, s, t) ==
  /\ FreeRpc(k)
  /\ clock <= MaxEvents
  /\ LET ev == Event(clock, s, t, "req", "rq") IN
       /\ store' = Insert(ev)
       /\ rpc' = [rpc EXCEPT ![k] = [pc |-> "r_persisted", s |-> s, ev |-> ev]]
  /\ clock' = clock + 1
  /\ UNCHANGED <<subscribers, subKeys, chan, lock, sub, out, bcastLog, regAt, allMatched>>
  /\ UNCHANGED <<qvars, cvars, xvars>>

\* submit_request after the insert returned: enqueue the event, then
\* broadcast it; neither suspends unless a subscription holds the session lock
SubmitRequestEnqueue(k) ==
  /\ rpc[k].pc = "r_persisted"
  /\ QEnqueue(rpc[k].s, rpc[k].ev)
  /\ IF lock[rpc[k].s] = "free"
     THEN /\ Broadcast(rpc[k].s, rpc[k].ev)
          /\ rpc' = [QWakeRpc(rpc[k].s) EXCEPT ![k] = IdleRpc]
     ELSE /\ rpc' = [QWakeRpc(rpc[k].s) EXCEPT ![k].pc = "r_enqueued"]
          /\ UNCHANGED <<chan, bcastLog, subKeys>>
  /\ UNCHANGED <<peeked, retLog, lastRet, peekHold, clock, cvars, xvars>>
  /\ UNCHANGED <<store, subscribers, lock, sub, out, regAt, allMatched>>

\* submit_request: the lock was released; broadcast and return the event_id
SubmitRequestBroadcast(k) ==
  /\ rpc[k].pc = "r_enqueued"
  /\ Broadcast(rpc[k].s, rpc[k].ev)
  /\ rpc' = [rpc EXCEPT ![k] = IdleRpc]
  /\ UNCHANGED <<store, subscribers, lock, sub, out, regAt, allMatched>>
  /\ UNCHANGED <<qvars, clock, cvars, xvars>>

\* submit_decision: build the Response event and persist it
SubmitDecisionPersist(k, s, t, p) ==
  /\ FreeRpc(k)
  /\ clock <= MaxEvents
  /\ LET ev == Event(clock, s, t, "resp", p) IN
       /\ store' = Insert(ev)
       /\ rpc' = [rpc EXCEPT ![k] = [pc |-> "d_persisted", s |-> s, ev |-> ev]]
  /\ clock' = clock + 1
  /\ UNCHANGED <<subscribers, subKeys, chan, lock, sub, out, bcastLog, regAt, allMatched>>
  /\ UNCHANGED <<qvars, cvars, xvars>>

\* submit_decision, once it has dequeued: broadcast the event, which waits
\* only while a subscription holds the session lock
SubmitDecisionFinish(k) ==
  IF lock[rpc[k].s] = "free"
  THEN /\ Broadcast(rpc[k].s, rpc[k].ev)
       /\ rpc' = [rpc EXCEPT ![k] = IdleRpc]
  ELSE /\ rpc' = [rpc EXCEPT ![k].pc = "d_dequeued"]
       /\ UNCHANGED <<chan, bcastLog, subKeys>>

\* submit_decision after the insert returned: dequeue() the head of the
\* session's queue, whatever its turn_id; on an empty queue the handler
\* waits inside Queue.get()
SubmitDecisionDequeue(k) ==
  /\ rpc[k].pc = "d_persisted"
  /\ LET s == rpc[k].s IN
       IF DequeueTakesPeeked(s) \/ queues[s] # <<>>
       THEN /\ QTake(s)
            /\ allMatched' = [allMatched EXCEPT ![s] =
                                @ /\ GetCurrentResult(s).turn = rpc[k].ev.turn]
            /\ SubmitDecisionFinish(k)
            /\ UNCHANGED <<getters, dq, enqLog>>
       ELSE /\ getters' = [getters EXCEPT ![s] = Append(@, [kind |-> "rpc", k |-> k])]
            /\ rpc' = [rpc EXCEPT ![k].pc = "d_waiting"]
            /\ allMatched' = [allMatched EXCEPT ![s] = FALSE]
            /\ UNCHANGED <<queues, peeked, dq, enqLog, retLog, lastRet, peekHold>>
            /\ UNCHANGED <<chan, bcastLog, subKeys>>
  /\ UNCHANGED <<store, subscribers, lock, sub, out, regAt, clock, cvars, xvars>>

\* submit_decision woken inside Queue.get(): it re-tests empty(), takes the
\* head and goes on to broadcast, or waits again
SubmitDecisionResume(k) ==
  /\ rpc[k].pc = "d_woken"
  /\ LET s == rpc[k].s IN
       IF queues[s] # <<>>
       THEN /\ queues' = [queues EXCEPT ![s] = QRest(s)]
            /\ QReturned(s, QHead(s))
            /\ SubmitDecisionFinish(k)
            /\ UNCHANGED getters
       ELSE /\ getters' = [getters EXCEPT ![s] = Append(@, [kind |-> "rpc", k |-> k])]
            /\ rpc' = [rpc EXCEPT ![k].pc = "d_waiting"]
            /\ UNCHANGED <<queues, retLog, lastRet, peekHold, chan, bcastLog, subKeys>>
  /\ UNCHANGED <<peeked, dq, enqLog, allMatched>>
  /\ UNCHANGED <<store, subscribers, lock, sub, out, regAt, clock, cvars, xvars>>

\* submit_decision: the lock was released; broadcast and return the event_id
SubmitDecisionBroadcast(k) ==
  /\ rpc[k].pc = "d_dequeued"
  /\ Broadcast(rpc[k].s, rpc[k].ev)
  /\ rpc' = [rpc EXCEPT ![k] = IdleRpc]
  /\ UNCHANGED <<store, subscribers, lock, sub, out, regAt, allMatched>>
  /\ UNCHANGED <<qvars, clock, cvars, xvars>>

BrokerInit == BaseInit /\ IInit

\* the broker is checked with one observer; fan-out is SpecBroadcaster's
BrokerSubs == {"c1"}

BrokerNext ==
  \/ \E k \in RpcTasks, s \in Sessions, t \in Turns : SubmitRequestPersist(k, s, t)
  \/ \E k \in RpcTasks : SubmitRequestEnqueue(k)
  \/ \E k \in RpcTasks : SubmitRequestBroadcast(k)
  \/ \E k \in RpcTasks, s \in Sessions, t \in Turns :
       SubmitDecisionPersist(k, s, t, "p1")
  \/ \E k \in RpcTasks : SubmitDecisionDequeue(k)
  \/ \E k \in RpcTasks : SubmitDecisionResume(k)
  \/ \E k \in RpcTasks : SubmitDecisionBroadcast(k)
  \/ \E c \in BrokerSubs, s \in Sessions : SubscribeFetch(c, s)
  \/ \E c \in BrokerSubs : Register(c)
  \/ \E c \in BrokerSubs : YieldHistory(c)
  \/ \E c \in BrokerSubs : YieldMarker(c)
  \/ \E c \in BrokerSubs : YieldLive(c)
  \/ \E c \in BrokerSubs : Detach(c)

SpecBroker == BrokerInit /\ [][BrokerNext]_vars

----------------------------------------------------------------------------
\* The broadcaster driven directly through its API (as its unit tests do)

\* a caller inserts an event into the store without broadcasting it
StoreInsert(s) ==
  /\ clock <= MaxEvents
  /\ store' = Insert(Event(clock, s, "t1", "req", "rq"))
  /\ clock' = clock + 1
  /\ UNCHANGED <<subscribers, subKeys, chan, lock, sub, out, rpc, bcastLog, regAt, allMatched>>
  /\ UNCHANGED <<qvars, cvars, xvars>>

\* a caller broadcasts a fresh event; the call waits for the session lock
BroadcastCall(s) ==
  /\ clock <= MaxEvents
  /\ Broadcast(s, Event(clock, s, "t1", "req", "rq"))
  /\ clock' = clock + 1
  /\ UNCHANGED <<store, subscribers, lock, sub, out, rpc, regAt, allMatched>>
  /\ UNCHANGED <<qvars, cvars, xvars>>

BroadcasterNext ==
  \/ \E s \in Sessions : StoreInsert(s)
  \/ \E s \in Sessions : BroadcastCall(s)
  \/ \E c \in Subs, s \in Sessions : SubscribeFetch(c, s)
  \/ \E c \in Subs : Register(c)
  \/ \E c \in Subs : YieldHistory(c)
  \/ \E c \in Subs : YieldMarker(c)
  \/ \E c \in Subs : YieldLive(c)
  \/ \E c \in Subs : Detach(c)

SpecBroadcaster == BrokerInit /\ [][BroadcasterNext]_vars

----------------------------------------------------------------------------
\* Client: PendingFutureRegistry and SimulatorPlugin

\* PendingFutureRegistry.create: a pending future for a fresh turn_id (uuid4)
CreateFuture(t) ==
  /\ fut[t].state = "none"
  /\ t \notin registry
  /\ registry' = registry \cup {t}
  /\ fut' = [fut EXCEPT ![t] = [state |-> "pending", result |-> ""]]

\* the same as a step of its own
Create(t) ==
  /\ CreateFuture(t)
  /\ UNCHANGED <<lastResolve, firstResp, fulfilCount, delivered>>
  /\ UNCHANGED <<qvars, clock, bvars, xvars>>

\* PendingFutureRegistry.resolve looks the turn_id up among the pending futures
MutResolvePending(t) == fut[t].state # "none"

ResolvePending(t) == t \in registry

\* PendingFutureRegistry.resolve: set the result and forget the future (True),
\* or do nothing (False)
Resolve(t, p) ==
  IF ResolvePending(t)
  THEN /\ fut' = [fut EXCEPT ![t] = [state |-> "done", result |-> p]]
       /\ registry' = registry \ {t}
       /\ fulfilCount' = [fulfilCount EXCEPT ![t] = @ + 1]
       /\ lastResolve' = [n |-> lastResolve.n + 1, turn |-> t, payload |-> p,
                          ret |-> TRUE]
  ELSE /\ UNCHANGED <<fut, registry, fulfilCount>>
       /\ lastResolve' = [n |-> lastResolve.n + 1, turn |-> t, payload |-> p,
                          ret |-> FALSE]

\* _listen_loop: field_name == "llm_response"
MutIsDecision(e) == e.kind \in {"req", "resp"}

IsDecision(e) == e.kind = "resp"

\* _listen_loop: the body of the loop for one event of the stream
ListenHandle(e) ==
  /\ delivered' = delivered + 1
  /\ IF IsDecision(e)
     THEN Resolve(e.turn, e.payload)
     ELSE UNCHANGED <<registry, fut, lastResolve, fulfilCount>>
  /\ firstResp' =
       IF e.kind = "resp" /\ fut[e.turn].state # "none" /\ firstResp[e.turn] = "none"
       THEN [firstResp EXCEPT ![e.turn] = e.payload]
       ELSE firstResp

\* the loop receives an arbitrary event of its session (history, live event,
\* or a duplicate of either)
ListenDeliver(k, t, p) ==
  /\ delivered < MaxDeliver
  /\ ListenHandle(Event(1, "s1", t, k, p))
  /\ UNCHANGED <<qvars, clock, bvars, xvars>>

ClientNext ==
  \/ \E t \in Turns : Create(t)
  \/ \E t \in Turns : ListenDeliver("req", t, "rq")
  \/ \E t \in AllTurns, p \in Payloads : ListenDeliver("resp", t, p)
  \/ ListenDeliver("hc", "", 0)

SpecClient == BrokerInit /\ [][ClientNext]_vars

----------------------------------------------------------------------------
\* The plugin against the broker: one session, the plugin's listen loop as
\* its subscriber, intercepted calls and human decisions

\* initialize(): the listen task is started and opens its subscription
ListenStart == SubscribeFetch("c1", "s1")

\* _listen_loop receives a replayed event
ListenHistory ==
  /\ YieldHistoryStep("c1")
  /\ ListenHandle(sub["c1"].hist[sub["c1"].n])
  /\ UNCHANGED xvars

\* _listen_loop receives the HistoryComplete marker
ListenMarker ==
  /\ YieldMarkerStep("c1")
  /\ ListenHandle(HistoryComplete("s1", Len(sub["c1"].hist)))
  /\ UNCHANGED xvars

\* _listen_loop receives a live event
ListenLive ==
  /\ YieldLiveStep("c1")
  /\ ListenHandle(Head(chan["c1"]))
  /\ UNCHANGED xvars

\* a Request event for the turn is in the store
Requested(t) ==
  \E e \in Range(store) : e.kind = "req" /\ e.session = "s1" /\ e.turn = t

\* before_model_callback: after registering the future, submit the request
InterceptSubmit(k, t) ==
  /\ fut[t].state = "pending"
  /\ ~Requested(t)
  /\ SubmitRequestPersist(k, "s1", t)

\* a decision from a UI: for a turn whose request was submitted, or for a
\* turn_id that no request ever carried
Decide(k, t, p) ==
  /\ t \in Turns => Requested(t)
  /\ SubmitDecisionPersist(k, "s1", t, p)

E2ENext ==
  \/ ListenStart
  \/ Register("c1")
  \/ ListenHistory
  \/ ListenMarker
  \/ ListenLive
  \/ \E t \in Turns : Create(t)
  \/ \E k \in RpcTasks, t \in Turns : InterceptSubmit(k, t)
  \/ \E k \in RpcTasks : SubmitRequestEnqueue(k)
  \/ \E k \in RpcTasks : SubmitRequestBroadcast(k)
  \/ \E k \in RpcTasks, t \in AllTurns, p \in Payloads : Decide(k, t, p)
  \/ \E k \in RpcTasks : SubmitDecisionDequeue(k)
  \/ \E k \in RpcTasks : SubmitDecisionResume(k)
  \/ \E k \in RpcTasks : SubmitDecisionBroadcast(k)

\* the event loop runs every task that is ready: a started handler or
\* subscription proceeds to its next await
E2EFairness ==
  /\ WF_vars(ListenStart)
  /\ WF_vars(Register("c1"))
  /\ WF_vars(ListenHistory)
  /\ WF_vars(ListenMarker)
  /\ WF_vars(ListenLive)
  /\ \A k \in RpcTasks :
       /\ WF_vars(SubmitRequestEnqueue(k))
       /\ WF_vars(SubmitRequestBroadcast(k))
       /\ WF_vars(SubmitDecisionDequeue(k))
       /\ WF_vars(SubmitDecisionResume(k))
       /\ WF_vars(SubmitDecisionBroadcast(k))

SpecE2E == BrokerInit /\ [][E2ENext]_vars /\ E2EFairness

----------------------------------------------------------------------------
\* Derived views of a subscription's stream

Registered(c) == sub[c].pc \in {"replay", "live"}

Subscribed(c) == sub[c].pc \in {"replay", "live", "closed"}

\* position of the HistoryComplete marker in the yielded stream (0: not yet)
MarkerPos(c) ==
  IF \E i \in 1..Len(out[c]) : out[c][i].kind = "hc"
  THEN CHOOSE i \in 1..Len(out[c]) : out[c][i].kind = "hc"
  ELSE 0

\* the live events of a subscription: yielded after the marker, or still queued
LiveStream(c) ==
  (IF MarkerPos(c) > 0 THEN SubSeq(out[c], MarkerPos(c) + 1, Len(out[c])) ELSE <<>>)
    \o chan[c]

\* everything the subscription has yielded or is still going to yield
FullStream(c) ==
  IF sub[c].pc = "replay"
  THEN out[c] \o SubSeq(sub[c].hist, sub[c].n, Len(sub[c].hist)) \o chan[c]
  ELSE out[c] \o chan[c]

\* the events broadcast on the subscription's session since it registered
SinceReg(c) == SubSeq(bcastLog[sub[c].s], regAt[c] + 1, Len(bcastLog[sub[c].s]))

\* history, one marker carrying the history's length, then the live events
Expected(c) ==
  sub[c].hist \o <<HistoryComplete(sub[c].s, Len(sub[c].hist))>> \o SinceReg(c)

NoDuplicate(f) == \A i, j \in 1..Len(f) : f[i] = f[j] => i = j

----------------------------------------------------------------------------
\* C1: a subscription's stream is the N persisted events in order, then one
\* HistoryComplete marker with event_count = N, then only the events
\* broadcast after the registration, with no gap and no duplicate.
C1_HistoryThenLive ==
  \A c \in Subs : Subscribed(c) =>
    /\ IsPrefix(out[c], Expected(c))
    /\ NoDuplicate(out[c])

\* C2: every event persisted and broadcast on S reaches a subscriber of S
\* exactly once, as replayed history or as a live event.
C2_ExactlyOnce ==
  \A c \in Subs : Registered(c) =>
    \A e \in Range(bcastLog[sub[c].s]) : Count(e, FullStream(c)) = 1

\* C3: a subscriber observes the events broadcast on its session after it
\* registered in the order of their broadcast (e1 before e2).
C3_BroadcastOrder ==
  \A c \in Subs :
    /\ Registered(c) => LiveStream(c) = SinceReg(c)
    /\ sub[c].pc = "closed" => IsPrefix(LiveStream(c), SinceReg(c))

C3_Witness ==
  \E c \in Subs :
    /\ sub[c].pc = "live"
    /\ MarkerPos(c) > 0
    /\ Len(out[c]) >= MarkerPos(c) + 2

\* C9: an event that is in a session queue or was delivered to a subscriber
\* is already in the event store, and a broadcast Request event was enqueued
\* before it was broadcast.
C9_PersistedFirst ==
  /\ \A s \in Sessions :
       /\ Range(queues[s]) \subseteq Range(store)
       /\ peeked[s] # None => peeked[s] \in Range(store)
       /\ Range(bcastLog[s]) \subseteq Range(store)
       /\ \A e \in Range(bcastLog[s]) : e.kind = "req" => e \in Range(enqLog[s])
  /\ \A c \in Subs :
       /\ Range(chan[c]) \subseteq Range(store)
       /\ \A e \in Range(out[c]) : e.kind # "hc" => e \in Range(store)

C9_Witness ==
  \E c \in Subs, s \in Sessions :
    /\ sub[c].pc = "live" /\ sub[c].s = s
    /\ queues[s] # <<>>
    /\ \E e \in Range(LiveStream(c)) : e.kind = "req" /\ e \in Range(out[c])

\* no SubmitRequest/SubmitDecision call is in flight
Quiescent == \A k \in RpcTasks : rpc[k].pc = "idle"

\* the events a session's queue holds, head first
QueueContents(s) ==
  (IF peeked[s] # None THEN <<peeked[s]>> ELSE <<>>) \o queues[s]

Decided(s, t) ==
  \E e \in Range(store) : e.kind = "resp" /\ e.session = s /\ e.turn = t

\* the enqueued Request events of s for whose turn no decision was submitted
Undecided(s) == SelectSeq(enqLog[s], LAMBDA e : ~Decided(s, e.turn))

DistinctTurns(s) ==
  \A i, j \in 1..Len(enqLog[s]) : enqLog[s][i].turn = enqLog[s][j].turn => i = j

----------------------------------------------------------------------------
\* C4: dequeue returns a session's events in exactly the order in which
\* they were enqueued (the returned sequence is a prefix of the enqueued one).
C4_DequeueFifo == \A s \in Sessions : IsPrefix(retLog[s], enqLog[s])

\* C5: if get_current(S) returned e and no dequeue(S) has returned since,
\* the next dequeue(S) to return returns e.
C5_PeekThenDequeue ==
  \A s \in Sessions : lastRet[s].held # None => lastRet[s].ev = lastRet[s].held

----------------------------------------------------------------------------
\* C6: a resolve for a turn_id with a pending correlation returns true and
\* fulfils it with that response; a resolve for a turn_id already resolved or
\* never registered returns false and changes neither the registry nor any
\* future.
C6_ResolveIdempotent ==
  [][lastResolve'.n # lastResolve.n =>
       LET t == lastResolve'.turn
           p == lastResolve'.payload
       IN  IF fut[t].state = "pending"
           THEN /\ lastResolve'.ret
                /\ fut' = [fut EXCEPT ![t] = [state |-> "done", result |-> p]]
                /\ registry' = registry \ {t}
           ELSE /\ ~lastResolve'.ret
                /\ UNCHANGED <<registry, fut>>]_vars

C6_Witness ==
  /\ lastResolve.n >= 2
  /\ ~lastResolve.ret
  /\ fut[lastResolve.turn].state = "done"
  /\ fut[lastResolve.turn].result # lastResolve.payload

\* C7: whatever sequence of events the listen loop is handed, each
\* correlation is fulfilled at most once, with the payload of the first
\* Response event delivered for its turn_id.
C7_FulfilledOnceWithFirst ==
  \A t \in Turns :
    /\ fulfilCount[t] <= 1
    /\ fut[t].state = "done" => fut[t].result = firstResp[t]
    /\ fut[t].state = "pending" => firstResp[t] = "none"
    /\ (t \in registry) = (fut[t].state = "pending")

C7_Witness ==
  \E t \in Turns :
    /\ fut[t].state = "done"
    /\ lastResolve.turn = t /\ ~lastResolve.ret
    /\ lastResolve.payload # fut[t].result
    /\ delivered >= 3

\* C8: if an intercepted call waits on its correlation for turn t and a
\* decision for t has been submitted, the listen loop eventually observes a
\* Response event for t and the correlation resolves to a submitted
\* decision's response.
C8_RoundTrip ==
  \A t \in Turns :
    (fut[t].state = "pending" /\ Requested(t) /\ Decided("s1", t))
      ~> (/\ fut[t].state = "done"
          /\ \E e \in Range(out["c1"]) :
               e.kind = "resp" /\ e.turn = t /\ e.payload = fut[t].result
          /\ \E e \in Range(store) :
               e.kind = "resp" /\ e.turn = t /\ e.payload = fut[t].result)

\* C11: a SubmitDecision on a session that has no undecided request
\* completes without blocking: its handler never waits for the queue, the
\* Response event is in the store, and the queue is not affected.
C11_DecisionDoesNotBlock ==
  \A k \in RpcTasks :
    /\ rpc[k].pc \notin {"d_waiting", "d_woken"}
    /\ rpc[k].pc \in {"d_persisted", "d_dequeued"} => rpc[k].ev \in Range(store)

\* the events of a kind the store holds for a session and a turn_id
StoredFor(s, t, k) ==
  {i \in 1..Len(store) :
     store[i].session = s /\ store[i].turn = t /\ store[i].kind = k}

\* C12: the event log holds, for every session and turn_id, at most one
\* Request event and at most one Response event.
C12_OnePerTurn ==
  \A s \in Sessions, t \in AllTurns :
    /\ Cardinality(StoredFor(s, t, "req")) <= 1
    /\ Cardinality(StoredFor(s, t, "resp")) <= 1

\* the subscriptions registered on a session and not yet detached
RegisteredOn(s) == {c \in Subs : Registered(c) /\ sub[c].s = s}

\* C13: an event broadcast on S reaches every subscriber registered on S at
\* that time exactly once, each from its own queue, and no subscriber of
\* another session.
C13_FanOut ==
  \A c \in Subs : Registered(c) =>
    /\ \A e \in Range(SinceReg(c)) : Count(e, LiveStream(c)) = 1
    /\ \A e \in Range(LiveStream(c)) : e.session = sub[c].s
    /\ \A s \in Sessions \ {sub[c].s} :
         Range(bcastLog[s]) \cap Range(LiveStream(c)) = {}

C13_Witness ==
  /\ RegisteredOn("s1") = Subs
  /\ \E e \in Range(bcastLog["s1"]) : \A c \in Subs : e \in Range(out[c])
  /\ bcastLog["s2"] # <<>>

\* C14: a broadcast on a session without subscribers changes no broadcaster
\* state (no subscriber set, no queued event), and its event is never a live
\* event of a subscription registered afterwards.
C14_NoSubscriberNoOp ==
  /\ [][\A s \in Sessions :
          (bcastLog'[s] # bcastLog[s] /\ subscriber_count(s) = 0)
            => UNCHANGED <<subscribers, subKeys, chan>>]_vars
  /\ [](\A c \in Subs : Registered(c) =>
          \A i \in 1..regAt[c] :
            bcastLog[sub[c].s][i] \notin Range(LiveStream(c)))

C14_Witness ==
  /\ sub["c1"].pc = "live" /\ sub["c2"].pc = "idle"
  /\ regAt["c1"] >= 1
  /\ \E e \in Range(SinceReg("c1")) : e \in Range(out["c1"])

\* C15: subscriber_count(S) is the number of subscriptions registered on S
\* and not yet detached; a detached subscription's queue is unregistered and
\* no subscriber set remains for a session without subscribers.
C15_SubscriberCount ==
  /\ \A s \in Sessions :
       /\ subscriber_count(s) = Cardinality(RegisteredOn(s))
       /\ RegisteredOn(s) = {} => s \notin subKeys
  /\ \A c \in Subs : sub[c].pc = "closed" => c \notin subscribers[sub[c].s]

C15_Witness ==
  /\ \A c \in Subs : sub[c].pc = "closed" /\ sub[c].s = "s1"
  /\ bcastLog["s1"] # <<>>
  /\ subKeys = {}


----------------------------------------------------------------------------
\* SessionRepository: create and the cursor pagination of list_all

MaxSessions == 3    \* rows inserted in one run
MaxPageSize == 2    \* largest page_size a caller passes
FirstTs == 9        \* earliest created_at (seconds)
TsSpan == 2         \* created_at values range over FirstTs..FirstTs+TsSpan

Timestamps == FirstTs..(FirstTs + TsSpan)

PageSizes == 1..MaxPageSize

DigitChars == <<"0", "1", "2", "3", "4", "5", "6", "7", "8", "9">>

\* str(last_ts): the decimal digits of a non-negative integer
RECURSIVE ToDigits(_)
ToDigits(n) ==
  IF n < 10
  THEN <<DigitChars[n + 1]>>
  ELSE ToDigits(n \div 10) \o <<DigitChars[(n % 10) + 1]>>

IsDigit(c) == \E d \in 1..10 : DigitChars[d] = c

DigitVal(c) == (CHOOSE d \in 1..10 : DigitChars[d] = c) - 1

\* int(text) for a text of decimal digits
RECURSIVE FromDigits(_)
FromDigits(x) ==
  IF Len(x) = 1
  THEN DigitVal(x[1])
  ELSE 10 * FromDigits(SubSeq(x, 1, Len(x) - 1)) + DigitVal(x[Len(x)])

\* base64.b64encode(text): a well-formed base64 string that decodes to text
B64Encode(text) == [enc |-> "b64", text |-> text]

\* next_token = b64encode(str(last_ts))
EncodeToken(ts) == B64Encode(ToDigits(ts))

\* int(base64.b64decode(page_token).decode("utf-8")): the cursor, or the
\* exception b64decode or int raises (binascii.Error, ValueError)
DecodeCursor(tok) ==
  IF /\ tok.enc = "b64"
     /\ tok.text # <<>>
     /\ \A i \in 1..Len(tok.text) : IsDigit(tok.text[i])
  THEN [ok |-> TRUE, ts |-> FromDigits(tok.text)]
  ELSE [ok |-> FALSE, ts |-> 0]

\* ORDER BY created_at DESC: any order of the rows with created_at
\* non-increasing; the order among equal created_at is the database's choice
Orders ==
  {o \in [1..Len(sessionRows) -> 1..Len(sessionRows)] :
     /\ \A i, j \in 1..Len(sessionRows) : i # j => o[i] # o[j]
     /\ \A i \in 1..(Len(sessionRows) - 1) : sessionRows[o[i]] >= sessionRows[o[i + 1]]}

\* LIMIT n, rows[:n]
Limit(rows, n) == SubSeq(rows, 1, IF n < Len(rows) THEN n ELSE Len(rows))

\* SessionRepository.list_all(page_size, page_token), o being the order the
\* database returns the rows in
ListAll(tok, ps, o) ==
  LET cur == DecodeCursor(tok)
      Older(i) == sessionRows[i] < cur.ts
      rows == IF tok = NoToken THEN o ELSE SelectSeq(o, Older)
      fetched == Limit(rows, ps + 1)
      has_more == Len(fetched) > ps
      page == Limit(fetched, ps)
  IN  IF tok # NoToken /\ ~cur.ok
      THEN [err |-> TRUE, ids |-> <<>>, next |-> NoToken]
      ELSE [err |-> FALSE, ids |-> page,
            next |-> IF has_more /\ page # <<>>
                     THEN EncodeToken(sessionRows[page[Len(page)]])
                     ELSE NoToken]

\* the call and its result, as the caller sees them
Listed(tok, ps, o) ==
  /\ lastList' = [token |-> tok, size |-> ps,
                  err |-> ListAll(tok, ps, o).err,
                  ids |-> ListAll(tok, ps, o).ids,
                  next |-> ListAll(tok, ps, o).next,
                  first |-> ListAll(NoToken, ps, o).ids,
                  foreign |-> tok # NoToken /\ tok \notin issued]
  /\ issued' = issued \cup ({ListAll(tok, ps, o).next} \ {NoToken})

\* INSERT INTO sessions (id, created_at, status, proto_blob): the new row's
\* id is its position in the table
RepoInsert(ts, st, desc) ==
  /\ sessionRows' = Append(sessionRows, ts)
  /\ sessionStatus' = Append(sessionStatus, st)
  /\ sessionDesc' = Append(sessionDesc, desc)

\* SessionRepository.create: created_at = int(session.created_at.timestamp()),
\* the wall clock in whole seconds
RepoCreate(ts) ==
  /\ pager = "idle"
  /\ Len(sessionRows) < MaxSessions
  /\ \A i \in 1..Len(sessionRows) : sessionRows[i] <= ts
  /\ RepoInsert(ts, "active", "")
  /\ UNCHANGED <<pageSize, pageToken, collected, pager, issued, lastList>>
  /\ UNCHANGED <<qvars, clock, bvars, cvars, lvars, mvars, kvars, ivars, evars, rvars>>

\* a caller starts listing: list_all(page_size) without token
ListFirstPage(ps, o) ==
  /\ pager = "idle"
  /\ Listed(NoToken, ps, o)
  /\ pageSize' = ps
  /\ collected' = ListAll(NoToken, ps, o).ids
  /\ pageToken' = ListAll(NoToken, ps, o).next
  /\ pager' = IF ListAll(NoToken, ps, o).next = NoToken THEN "done" ELSE "paging"
  /\ UNCHANGED sessionRows
  /\ UNCHANGED <<qvars, clock, bvars, cvars, lvars, yvars>>

\* the caller passes the next_page_token it was given
ListNextPage(o) ==
  /\ pager = "paging"
  /\ Listed(pageToken, pageSize, o)
  /\ collected' = collected \o ListAll(pageToken, pageSize, o).ids
  /\ pageToken' = ListAll(pageToken, pageSize, o).next
  /\ pager' = IF ListAll(pageToken, pageSize, o).next = NoToken THEN "done" ELSE "paging"
  /\ UNCHANGED <<sessionRows, pageSize>>
  /\ UNCHANGED <<qvars, clock, bvars, cvars, lvars, yvars>>

\* tokens a caller may make up: text that is not base64, base64 of text that
\* is not a number, and well-formed cursors whether or not they were issued
ProbeTokens ==
  {[enc |-> "raw", text |-> <<"!">>], B64Encode(<<"x">>)}
    \cup {EncodeToken(ts) : ts \in FirstTs..(FirstTs + TsSpan + 1)}

\* a single list_all call with an arbitrary page_token
ListWithToken(tok, ps, o) ==
  /\ Listed(tok, ps, o)
  /\ UNCHANGED <<sessionRows, pageSize, pageToken, collected, pager>>
  /\ UNCHANGED <<qvars, clock, bvars, cvars, lvars, yvars>>

PagingNext ==
  \/ \E ts \in Timestamps : RepoCreate(ts)
  \/ \E ps \in PageSizes, o \in Orders : ListFirstPage(ps, o)
  \/ \E o \in Orders : ListNextPage(o)
  \/ \E tok \in ProbeTokens, ps \in PageSizes, o \in Orders : ListWithToken(tok, ps, o)

SpecPaging == BrokerInit /\ [][PagingNext]_vars

\* C16: when the caller has followed next_page_token until none was returned,
\* it has been given every stored session exactly once, in created_at
\* descending order (sessions with equal created_at included)
C16_PagingComplete ==
  pager = "done" =>
    /\ \A i \in 1..Len(sessionRows) : Count(i, collected) = 1
    /\ \A j \in 1..(Len(collected) - 1) :
         sessionRows[collected[j]] >= sessionRows[collected[j + 1]]

\* C17: list_all with a page token that no earlier call produced does not
\* raise and returns what a call without token returns, the first page
C17_ForeignTokenFirstPage ==
  lastList.foreign => ~lastList.err /\ lastList.ids = lastList.first


----------------------------------------------------------------------------
\* SimulatorPlugin lifecycle: initialize, the listen task, close

MaxServerSessions == 3   \* sessions created at the server in one run

\* stub.create_session: the server creates a session and returns its fresh id
ServerCreate(who) ==
  /\ Len(created) < MaxServerSessions
  /\ created' = Append(created, who)

\* initialize(): create a session, keep its id, start the listen task
PluginInitialize ==
  /\ listenTask = "none"
  /\ plugClose = "no"
  /\ ServerCreate("plugin")
  /\ plugSession' = Len(created) + 1
  /\ listenTask' = "started"
  /\ UNCHANGED <<plugClose, subscribeLog, waited, failures>>
  /\ UNCHANGED <<qvars, clock, bvars, cvars, pvars, yvars>>

\* another client of the same server creates a session
OtherCreateSession ==
  /\ ServerCreate("other")
  /\ UNCHANGED <<plugSession, listenTask, plugClose, subscribeLog, waited, failures>>
  /\ UNCHANGED <<qvars, clock, bvars, cvars, pvars, yvars>>

\* _listen_loop: SubscribeRequest(session_id=self.session_id)
MutSubscribeSession == Len(created)

SubscribeSession == plugSession

\* _listen_loop starts running: without session_id it returns, otherwise it
\* sends its Subscribe and iterates over the stream
ListenSubscribe ==
  /\ listenTask = "started"
  /\ IF plugSession = 0
     THEN /\ listenTask' = "ended"
          /\ UNCHANGED subscribeLog
     ELSE /\ listenTask' = "streaming"
          /\ subscribeLog' = Append(subscribeLog, SubscribeSession)
  /\ UNCHANGED <<plugSession, created, plugClose, waited, failures>>
  /\ UNCHANGED <<qvars, clock, bvars, cvars, pvars, yvars>>

\* _listen_loop: one event of the stream arrives
ListenEvent(k, t, p) ==
  /\ listenTask = "streaming"
  /\ ListenDeliver(k, t, p)

\* the stream raises (stream terminated, server unavailable):
\* except Exception: logger.exception(...); raise -- the task ends with the error
StreamError ==
  /\ listenTask = "streaming"
  /\ failures' = failures + 1
  /\ listenTask' = "failed"
  /\ UNCHANGED <<plugSession, created, plugClose, subscribeLog, waited>>
  /\ UNCHANGED <<qvars, clock, bvars, cvars, pvars, yvars>>

\* the server ends the stream: the async for is exhausted and the loop returns
StreamEnd ==
  /\ listenTask = "streaming"
  /\ listenTask' = "ended"
  /\ UNCHANGED <<plugSession, created, plugClose, subscribeLog, waited, failures>>
  /\ UNCHANGED <<qvars, clock, bvars, cvars, pvars, yvars>>

\* close(): cancel the listen task and await it; only CancelledError is
\* suppressed, so the error of a failed task is raised out of close()
PluginClose ==
  /\ plugClose = "no"
  /\ listenTask' = IF listenTask \in {"started", "streaming"} THEN "cancelled" ELSE listenTask
  /\ plugClose' = IF listenTask = "failed" THEN "raised" ELSE "closed"
  /\ UNCHANGED <<plugSession, created, subscribeLog, waited, failures>>
  /\ UNCHANGED <<qvars, clock, bvars, cvars, pvars, yvars>>

PluginNext ==
  \/ PluginInitialize
  \/ OtherCreateSession
  \/ ListenSubscribe
  \/ StreamError
  \/ StreamEnd
  \/ PluginClose
  \/ \E t \in Turns : Create(t)
  \/ \E t \in Turns : ListenEvent("req", t, "rq")
  \/ \E t \in AllTurns, p \in Payloads : ListenEvent("resp", t, p)
  \/ ListenEvent("hc", "", 0)

SpecPlugin == BrokerInit /\ [][PluginNext]_vars

\* C18: after the Subscribe stream has raised while the plugin is not being
\* closed, the listen loop has not exited
C18_LoopSurvivesError ==
  failures > 0 /\ plugClose = "no" => listenTask \notin {"failed", "ended"}

\* the sessions the plugin has created at the server
PluginSessions == {i \in 1..Len(created) : created[i] = "plugin"}

InitialBackoff == 1

BackoffMultiplier == 2

MaxBackoff == 8

\* min(initial * multiplier^k, cap)
Backoff(k) ==
  IF InitialBackoff * BackoffMultiplier ^ k < MaxBackoff
  THEN InitialBackoff * BackoffMultiplier ^ k
  ELSE MaxBackoff

\* C20: the k-th consecutive failure of the stream (k = 0, 1, ...) has been
\* followed by a wait of min(initial * multiplier^k, cap)
C20_BackoffSchedule ==
  /\ Len(waited) = failures
  /\ \A k \in 1..Len(waited) : waited[k] = Backoff(k - 1)


\* C21: once close() has been called no correlation is left pending: every
\* future that was created has been fulfilled or cancelled and removed
C21_CloseCancelsPending ==
  plugClose # "no" =>
    /\ registry = {}
    /\ \A t \in AllTurns : fut[t].state # "pending"


----------------------------------------------------------------------------
\* SimulatorService when the event store fails

MaxInsertErrors == 1   \* inserts that raise in one run

\* the session's queue at the moment insert raises: the handler persists
\* before it enqueues, so the queue is as it was
MutQueueAtInsert(s, e) == QPutItems(s, e)

QueueAtInsert(s, e) == queues

\* submit_request: the insert raises and the error goes to the RPC caller
SubmitRequestInsertFails(k, s, t) ==
  /\ FreeRpc(k)
  /\ clock <= MaxEvents
  /\ insertErrors < MaxInsertErrors
  /\ insertErrors' = insertErrors + 1
  /\ queues' = QueueAtInsert(s, Event(clock, s, t, "req", "rq"))
  /\ UNCHANGED <<getters, peeked, dq, enqLog, retLog, peekHold, lastRet, clock>>
  /\ UNCHANGED <<bvars, cvars, pvars, lvars, tvars, mvars, kvars, ivars, rvars>>

\* submit_decision: the insert raises and the error goes to the RPC caller
SubmitDecisionInsertFails(k, s, t, p) ==
  /\ FreeRpc(k)
  /\ clock <= MaxEvents
  /\ insertErrors < MaxInsertErrors
  /\ insertErrors' = insertErrors + 1
  /\ UNCHANGED <<qvars, clock>>
  /\ UNCHANGED <<bvars, cvars, pvars, lvars, tvars, mvars, kvars, ivars, rvars>>

PersistNext ==
  \/ BrokerNext
  \/ \E k \in RpcTasks, s \in Sessions, t \in Turns : SubmitRequestInsertFails(k, s, t)
  \/ \E k \in RpcTasks, s \in Sessions, t \in Turns, p \in Payloads :
       SubmitDecisionInsertFails(k, s, t, p)

SpecPersist == BrokerInit /\ [][PersistNext]_vars

----------------------------------------------------------------------------
\* SessionManager over SessionRepository

MaxGets == 2          \* get_session calls per process
MaxManagerCalls == 3  \* create, update_status and restart steps in one run

Statuses == {"active", "completed"}

Descriptions == {"", "d1"}

\* the rows of the sessions table
RowIds == 1..Len(sessionRows)

\* self._active_sessions[session_id] = session
MutManagerCache(id, obj) == activeSessions

ManagerCache(id, obj) == [activeSessions EXCEPT ![id] = obj]

\* SessionManager.create_session: a fresh uuid4 and the current time, the
\* row inserted with the default status "active", the new object cached
ManagerCreate(desc, ts) ==
  /\ sessLast.n < MaxManagerCalls
  /\ Len(sessionRows) + 1 < MaxSessionIds
  /\ \A i \in RowIds : sessionRows[i] <= ts
  /\ RepoInsert(ts, "active", desc)
  /\ objCount' = objCount + 1
  /\ activeSessions' = ManagerCache(Len(sessionRows) + 1, objCount + 1)
  /\ sessLast' = [op |-> "create", id |-> Len(sessionRows) + 1, st |-> "active",
                  ret |-> TRUE, n |-> sessLast.n + 1]
  /\ UNCHANGED getLog
  /\ UNCHANGED <<pageSize, pageToken, collected, pager, issued, lastList>>
  /\ UNCHANGED <<qvars, clock, bvars, cvars, lvars, kvars, ivars, evars, rvars>>

\* get_session on a cache miss that the store answers: the loaded object is
\* put into the cache
MutCacheLoaded(id, obj) == activeSessions

CacheLoaded(id, obj) == [activeSessions EXCEPT ![id] = obj]

\* SessionManager.get_session: the cached object, or the object get_by_id
\* deserialises from the row, or not found (0)
GetSession(id) ==
  /\ Len(getLog) < MaxGets
  /\ IF activeSessions[id] # 0
     THEN /\ getLog' = Append(getLog, [id |-> id, ref |-> activeSessions[id], read |-> FALSE])
          /\ UNCHANGED <<activeSessions, objCount>>
     ELSE IF id \in RowIds
     THEN /\ getLog' = Append(getLog, [id |-> id, ref |-> objCount + 1, read |-> TRUE])
          /\ objCount' = objCount + 1
          /\ activeSessions' = CacheLoaded(id, objCount + 1)
     ELSE /\ getLog' = Append(getLog, [id |-> id, ref |-> 0, read |-> TRUE])
          /\ UNCHANGED <<activeSessions, objCount>>
  /\ UNCHANGED <<sessLast, tvars>>
  /\ UNCHANGED <<qvars, clock, bvars, cvars, pvars, lvars, kvars, ivars, evars, rvars>>

\* the server process restarts: a new SessionManager with an empty cache over
\* the same database
ManagerRestart ==
  /\ sessLast.n < MaxManagerCalls
  /\ \E i \in SessionIds : activeSessions[i] # 0
  /\ activeSessions' = [i \in SessionIds |-> 0]
  /\ getLog' = <<>>
  /\ sessLast' = [op |-> "restart", id |-> 0, st |-> "", ret |-> TRUE, n |-> sessLast.n + 1]
  /\ UNCHANGED <<objCount, tvars>>
  /\ UNCHANGED <<qvars, clock, bvars, cvars, pvars, lvars, kvars, ivars, evars, rvars>>

\* UPDATE sessions SET status = :status WHERE id = :id
MutStatusUpdated(id, st) == [i \in RowIds |-> st]

StatusUpdated(id, st) == [i \in RowIds |-> IF i = id THEN st ELSE sessionStatus[i]]

\* SessionRepository.update_status: True when a row was updated
UpdateStatus(id, st) ==
  /\ sessLast.n < MaxManagerCalls
  /\ sessionStatus' = StatusUpdated(id, st)
  /\ sessLast' = [op |-> "update", id |-> id, st |-> st, ret |-> id \in RowIds,
                  n |-> sessLast.n + 1]
  /\ UNCHANGED <<sessionRows, sessionDesc, activeSessions, objCount, getLog>>
  /\ UNCHANGED <<pageSize, pageToken, collected, pager, issued, lastList>>
  /\ UNCHANGED <<qvars, clock, bvars, cvars, lvars, kvars, ivars, evars, rvars>>

SessionsNext ==
  \/ \E d \in Descriptions, ts \in Timestamps : ManagerCreate(d, ts)
  \/ \E id \in SessionIds : GetSession(id)
  \/ ManagerRestart
  \/ \E id \in SessionIds, st \in Statuses : UpdateStatus(id, st)

SpecSessions == BrokerInit /\ [][SessionsNext]_vars

\* C23: a get_session that finds the id cached returns the cached object
\* without reading the store; an object a get_session returned is the cached
\* one from then on, and every later call for the id returns it from memory
C23_GetSessionCached ==
  /\ [](\A i \in 1..Len(getLog) :
          /\ getLog[i].ref # 0 => activeSessions[getLog[i].id] = getLog[i].ref
          /\ \A j \in (i + 1)..Len(getLog) :
               getLog[j].id = getLog[i].id /\ getLog[i].ref # 0 =>
                 getLog[j].ref = getLog[i].ref /\ ~getLog[j].read)
  /\ [][Len(getLog') > Len(getLog) /\ activeSessions[getLog'[Len(getLog')].id] # 0 =>
          /\ getLog'[Len(getLog')].ref = activeSessions[getLog'[Len(getLog')].id]
          /\ ~getLog'[Len(getLog')].read
          /\ UNCHANGED activeSessions]_vars

\* a cache miss answered by the store, followed by a hit for the same id
C23_Witness ==
  /\ Len(getLog) >= 2
  /\ getLog[1].read /\ getLog[1].ref # 0
  /\ getLog[2].id = getLog[1].id /\ ~getLog[2].read

\* C24: a create_session step returns an id no earlier session has, leaves
\* the row stored with status "active" and the new object cached under the id
C24_CreateSession ==
  [][Len(sessionRows') > Len(sessionRows) =>
       /\ sessLast'.op = "create"
       /\ sessLast'.id \notin RowIds
       /\ sessLast'.id \in 1..Len(sessionRows')
       /\ sessionStatus'[sessLast'.id] = "active"
       /\ activeSessions'[sessLast'.id] # 0
       /\ \A i \in SessionIds : i # sessLast'.id =>
            activeSessions'[i] # activeSessions'[sessLast'.id]]_vars

\* a second session has just been created and is cached
C24_Witness ==
  /\ sessLast.op = "create"
  /\ Len(sessionRows) >= 2
  /\ activeSessions[sessLast.id] # 0

----------------------------------------------------------------------------
\* SimulatorClient

MaxClientCalls == 5   \* calls made on the client in one run

\* the outcome of a client call: "none" when it returned normally
Called(op, err) ==
  cliLast' = [op |-> op, err |-> err, n |-> cliLast.n + 1,
              seen |-> IF err = "none" THEN cliLast.seen ELSE cliLast.seen \cup {err}]

\* the stub sends an RPC
Sent(rpcName, s, t) == cliSent' = Append(cliSent, [rpc |-> rpcName, session |-> s, turn |-> t])

\* if self._stub is None: raise RuntimeError("Client is not connected...")
NotConnected == ~cliConn

\* if self._session_id is None: raise RuntimeError("No session created...")
MutNoSession == FALSE

NoSession == cliSession = 0

\* connect that opens a new channel over the one in place
MutClientConnect ==
  /\ cliLast.n < MaxClientCalls
  /\ Called("connect", "none")
  /\ cliConn' = TRUE
  /\ UNCHANGED <<cliSession, cliSent>>
  /\ UNCHANGED <<qvars, clock, bvars, cvars, pvars, lvars, tvars, mvars, ivars, evars, rvars>>

\* SimulatorClient.connect
ClientConnect ==
  /\ cliLast.n < MaxClientCalls
  /\ IF cliConn
     THEN /\ Called("connect", "already_connected")
          /\ UNCHANGED cliConn
     ELSE /\ Called("connect", "none")
          /\ cliConn' = TRUE
  /\ UNCHANGED <<cliSession, cliSent>>
  /\ UNCHANGED <<qvars, clock, bvars, cvars, pvars, lvars, tvars, mvars, ivars, evars, rvars>>

\* SimulatorClient.close: the session id is kept
ClientClose ==
  /\ cliLast.n < MaxClientCalls
  /\ Called("close", "none")
  /\ cliConn' = FALSE
  /\ UNCHANGED <<cliSession, cliSent>>
  /\ UNCHANGED <<qvars, clock, bvars, cvars, pvars, lvars, tvars, mvars, ivars, evars, rvars>>

\* SimulatorClient.create_session
ClientCreateSession ==
  /\ cliLast.n < MaxClientCalls
  /\ IF NotConnected
     THEN /\ Called("create_session", "not_connected")
          /\ UNCHANGED <<cliSession, cliSent, created>>
     ELSE /\ Called("create_session", "none")
          /\ Sent("create_session", 0, "")
          /\ ServerCreate("client")
          /\ cliSession' = Len(created) + 1
  /\ UNCHANGED cliConn
  /\ UNCHANGED <<plugSession, listenTask, plugClose, subscribeLog, waited, failures>>
  /\ UNCHANGED <<qvars, clock, bvars, cvars, pvars, tvars, mvars, ivars, evars, rvars>>

\* the two checks submit_request and subscribe make before building the RPC
ClientSend(op, t) ==
  /\ cliLast.n < MaxClientCalls
  /\ IF NotConnected
     THEN /\ Called(op, "not_connected")
          /\ UNCHANGED cliSent
     ELSE IF NoSession
     THEN /\ Called(op, "no_session")
          /\ UNCHANGED cliSent
     ELSE /\ Called(op, "none")
          /\ Sent(op, cliSession, t)
  /\ UNCHANGED <<cliConn, cliSession>>
  /\ UNCHANGED <<qvars, clock, bvars, cvars, pvars, lvars, tvars, mvars, ivars, evars, rvars>>

\* SimulatorClient.submit_request
ClientSubmitRequest(t) == ClientSend("submit_request", t)

\* SimulatorClient.subscribe, iterated: the body of the async generator runs
\* when the caller asks for the first event
ClientSubscribe == ClientSend("subscribe", "")

SimClientNext ==
  \/ ClientConnect
  \/ ClientClose
  \/ ClientCreateSession
  \/ \E t \in Turns : ClientSubmitRequest(t)
  \/ ClientSubscribe

SpecSimClient == BrokerInit /\ [][SimClientNext]_vars

\* C25: create_session, submit_request and subscribe raise not-connected
\* exactly when the client has no stub, submit_request and subscribe raise
\* no-session exactly when it is connected without session; a call that
\* raises sends no RPC and leaves the client as it was
C25_NotConnectedNoSession ==
  [][cliLast'.n # cliLast.n
       /\ cliLast'.op \in {"create_session", "submit_request", "subscribe"} =>
       /\ cliLast'.err = "not_connected" <=> ~cliConn
       /\ cliLast'.err = "no_session" <=>
            cliConn /\ cliSession = 0 /\ cliLast'.op # "create_session"
       /\ cliLast'.err # "none" =>
            UNCHANGED <<cliConn, cliSession, cliSent, created>>
       /\ cliLast'.err = "none" =>
            /\ Len(cliSent') = Len(cliSent) + 1
            /\ cliLast'.op # "create_session" =>
                 cliSent'[Len(cliSent')].session = cliSession /\ cliSession # 0]_vars

\* both errors have been raised, the not-connected one on a client that
\* holds a session
C25_Witness ==
  /\ {"not_connected", "no_session"} \subseteq cliLast.seen
  /\ cliLast.err = "not_connected"
  /\ cliSession # 0


----------------------------------------------------------------------------
\* C26: get_current removes nothing, so a run with get_current calls shows
\* what the same run without them shows: is_empty is true exactly when every
\* enqueued event has been returned, dequeue returns the enqueued events in
\* order, and while no dequeue has returned since a get_current returned an
\* event, get_current returns that event again
C26_PeekRemovesNothing ==
  \A s \in Sessions :
    /\ is_empty(s) <=> Len(retLog[s]) = Len(enqLog[s])
    /\ Len(retLog[s]) <= Len(enqLog[s])
    /\ retLog[s] = SubSeq(enqLog[s], 1, Len(retLog[s]))
    /\ peekHold[s] # None => GetCurrentResult(s) = peekHold[s]


----------------------------------------------------------------------------
\* what RequestQueue holds for one session
SessionQueue(s) == <<queues[s], peeked[s], is_empty(s)>>

\* the step was an enqueue, dequeue or get_current on session s, or a waiting
\* dequeue of s going on
OperatedOn(s) ==
  \/ enqLog'[s] # enqLog[s]
  \/ retLog'[s] # retLog[s]
  \/ peekHold'[s] # peekHold[s]
  \/ getters'[s] # getters[s]

\* C27: a step of an operation on session a leaves the queue, the peeked
\* head and is_empty of every other session as they were, and a dequeue
\* waits on a session only because of that session's own queue: its queue is
\* empty or an earlier waiter of the same session has been woken for the item
C27_SessionsIndependent ==
  /\ [][\A a, b \in Sessions :
          a # b /\ OperatedOn(a) /\ ~OperatedOn(b) =>
            SessionQueue(b)' = SessionQueue(b)]_vars
  /\ [](\A k \in DqTasks :
          dq[k].pc = "waiting" /\ queues[dq[k].s] # <<>> =>
            \E j \in DqTasks : dq[j].pc = "woken" /\ dq[j].s = dq[k].s)

\* a dequeue waits on the empty s1 while s2 holds an event and has had one
\* dequeued
C27_Witness ==
  /\ \E k \in DqTasks : dq[k].pc = "waiting" /\ dq[k].s = "s1"
  /\ is_empty("s1")
  /\ queues["s2"] # <<>>
  /\ retLog["s2"] # <<>>


----------------------------------------------------------------------------
\* C28: the listen loop calls resolve for Response events only, an event it
\* handles without calling resolve leaves every future and the registry as
\* they were, and a correlation for which no Response has been delivered
\* stays pending and registered whatever Request events and HistoryComplete
\* markers were handled
C28_RequestsIgnored ==
  /\ [](\A t \in AllTurns :
          firstResp[t] = "none" =>
            /\ fulfilCount[t] = 0
            /\ fut[t].state # "done"
            /\ fut[t].state = "pending" => t \in registry)
  /\ [](lastResolve.n > 0 => lastResolve.payload \in Payloads)
  /\ [][delivered' # delivered /\ lastResolve'.n = lastResolve.n =>
          UNCHANGED <<registry, fut, fulfilCount>>]_vars

\* two events that are no Response have been handled while t1 is pending
C28_Witness ==
  /\ delivered >= 2
  /\ lastResolve.n = 0
  /\ fut["t1"].state = "pending" /\ "t1" \in registry


----------------------------------------------------------------------------
\* SimulatorPlugin: which model calls are intercepted

MaxCallbacks == 3     \* before_model_callback calls in one run

Agents == {"a1", "a2"}

\* SimulatorPlugin(target_agents=...): any set of agent names
InterceptInit ==
  /\ BaseInit
  /\ targetAgents \in SUBSET Agents
  /\ lastCall = NoCall

\* should_intercept: no targets means every agent
MutShouldIntercept(a) == a \in targetAgents

should_intercept(a) == IF targetAgents = {} THEN TRUE ELSE a \in targetAgents

\* before_model_callback: None for an agent that is not intercepted;
\* otherwise a future is registered for a new turn_id (the request is
\* submitted by the next step)
BeforeModelCallback(a, t) ==
  /\ lastCall.n < MaxCallbacks
  /\ IF should_intercept(a)
     THEN /\ CreateFuture(t)
          /\ lastCall' = [agent |-> a, passed |-> FALSE, n |-> lastCall.n + 1]
     ELSE /\ lastCall' = [agent |-> a, passed |-> TRUE, n |-> lastCall.n + 1]
          /\ UNCHANGED <<registry, fut>>
  /\ UNCHANGED <<lastResolve, firstResp, fulfilCount, delivered, targetAgents>>
  /\ UNCHANGED <<qvars, clock, bvars, pvars, lvars, tvars, mvars, kvars, evars, rvars>>

InterceptNext ==
  \/ \E a \in Agents, t \in Turns : BeforeModelCallback(a, t)
  \/ \E k \in RpcTasks, t \in Turns : InterceptSubmit(k, t)
  \/ \E k \in RpcTasks : SubmitRequestEnqueue(k)

SpecIntercept == InterceptInit /\ [][InterceptNext]_vars

\* C29: before_model_callback passes a call through exactly when the target
\* set is non-empty and lacks the agent; a call passed through registers no
\* future and submits nothing, an intercepted call registers a future; and a
\* request is submitted only for a turn that has a future
C29_PassThrough ==
  /\ [][lastCall'.n # lastCall.n =>
          /\ lastCall'.passed <=>
               (targetAgents # {} /\ lastCall'.agent \notin targetAgents)
          /\ lastCall'.passed => UNCHANGED <<registry, fut, store, rpc, queues>>
          /\ ~lastCall'.passed => registry' # registry]_vars
  /\ [](\A e \in Range(store) : fut[e.turn].state # "none")

\* one call was intercepted and its request submitted, a later call of
\* another agent was passed through
C29_Witness ==
  /\ lastCall.passed
  /\ lastCall.n >= 2
  /\ store # <<>>

----------------------------------------------------------------------------
\* EventRepository: the events table (promoted fields beside proto_blob)

MaxRows == 2        \* rows inserted into the events table in one run
MaxEventTs == 3     \* event timestamps range over 1..MaxEventTs

\* a SessionEvent with no field set
DefaultEvent ==
  [id |-> 0, session |-> "", ts |-> 0, turn |-> "", kind |-> "none", payload |-> ""]

\* the events a caller builds: scalar fields may hold their default value
\* and a payload message may be empty
NewEvents(n) ==
  {[id |-> n, session |-> s, ts |-> ts, turn |-> t, kind |-> k, payload |-> p] :
     s \in Sessions, ts \in 1..MaxEventTs, t \in {"", "t1"},
     k \in {"req", "resp"}, p \in {"", "p1"}}

\* a scalar field is written to the wire unless it holds its default value
IdField(e) == IF e.id = 0 THEN <<>> ELSE <<[f |-> "event_id", n |-> e.id, v |-> ""]>>

SessionField(e) ==
  IF e.session = "" THEN <<>> ELSE <<[f |-> "session_id", n |-> 0, v |-> e.session]>>

TsField(e) == IF e.ts = 0 THEN <<>> ELSE <<[f |-> "timestamp", n |-> e.ts, v |-> ""]>>

TurnField(e) ==
  IF e.turn = "" THEN <<>> ELSE <<[f |-> "turn_id", n |-> 0, v |-> e.turn]>>

\* a oneof member that is set is omitted like a scalar when its message is empty
MutOneofField(e) ==
  IF e.kind = "none" \/ e.payload = "" THEN <<>>
  ELSE <<[f |-> IF e.kind = "req" THEN "llm_request" ELSE "llm_response",
          n |-> 0, v |-> e.payload]>>

\* the member of the payload oneof that is set is always written, under its
\* own field, even when its message is empty
OneofField(e) ==
  IF e.kind = "none" THEN <<>>
  ELSE <<[f |-> IF e.kind = "req" THEN "llm_request" ELSE "llm_response",
          n |-> 0, v |-> e.payload]>>

\* bytes(event): the fields in field order
Serialize(e) ==
  IdField(e) \o SessionField(e) \o TsField(e) \o TurnField(e) \o OneofField(e)

\* one wire field applied to a partly parsed event
ParseField(ev, b) ==
  IF b.f = "event_id" THEN [ev EXCEPT !.id = b.n]
  ELSE IF b.f = "session_id" THEN [ev EXCEPT !.session = b.v]
  ELSE IF b.f = "timestamp" THEN [ev EXCEPT !.ts = b.n]
  ELSE IF b.f = "turn_id" THEN [ev EXCEPT !.turn = b.v]
  ELSE IF b.f = "llm_request" THEN [ev EXCEPT !.kind = "req", !.payload = b.v]
  ELSE [ev EXCEPT !.kind = "resp", !.payload = b.v]

RECURSIVE ParseFrom(_, _)
ParseFrom(ev, blob) ==
  IF blob = <<>> THEN ev ELSE ParseFrom(ParseField(ev, Head(blob)), Tail(blob))

\* SessionEvent().parse(proto_blob)
Parse(blob) == ParseFrom(DefaultEvent, blob)

\* the row insert() writes: the promoted fields and the blob
EventRow(e) ==
  [event_id |-> e.id, session_id |-> e.session, timestamp |-> e.ts,
   turn_id |-> e.turn,
   payload_type |-> IF e.kind = "req" THEN "llm_request" ELSE "llm_response",
   proto_blob |-> Serialize(e)]

\* EventRepository.insert(event)
InsertEvent(e) ==
  /\ Len(eventRows) < MaxRows
  /\ eventRows' = Append(eventRows, EventRow(e))
  /\ inserted' = Append(inserted, e)
  /\ UNCHANGED <<qvars, clock, bvars, cvars, pvars, lvars, tvars, mvars, kvars, ivars, evars>>

EventRepoNext == \E e \in NewEvents(Len(eventRows) + 1) : InsertEvent(e)

SpecEventRepo == QueueInit /\ [][EventRepoNext]_vars

----------------------------------------------------------------------------
\* FakeEventRepository driven directly, with timestamps in any order

\* insert(event) of an event whose timestamp the caller chose
FakeInsert(s, ts) ==
  /\ clock <= MaxEvents
  /\ LET e == [id |-> clock, session |-> s, ts |-> ts, turn |-> "t1",
               kind |-> "req", payload |-> "rq"]
     IN  /\ store' = Insert(e)
         /\ inserted' = Append(inserted, e)
  /\ clock' = clock + 1
  /\ UNCHANGED <<subscribers, subKeys, chan, lock, sub, out, rpc, bcastLog, regAt, allMatched>>
  /\ UNCHANGED <<qvars, cvars, pvars, lvars, tvars, mvars, kvars, ivars, evars, eventRows>>

EventStoreNext == \E s \in Sessions, ts \in 1..MaxEventTs : FakeInsert(s, ts)

SpecEventStore == QueueInit /\ [][EventStoreNext]_vars

\* the events handed to insert() with session s, in insertion order
InsertedFor(s) == SelectSeq(inserted, LAMBDA e : e.session = s)

\* C32: get_by_session(S) returns each event inserted with session S once,
\* unaltered, no other event, in ascending order of timestamp whatever the
\* order of insertion
C32_BySessionSorted ==
  \A s \in Sessions :
    LET r == GetBySession(s)
    IN  /\ Len(r) = Len(InsertedFor(s))
        /\ Range(r) = Range(InsertedFor(s))
        /\ \A e \in Range(InsertedFor(s)) : Count(e, r) = 1
        /\ \A i, j \in 1..Len(r) : i < j => r[i].ts <= r[j].ts

\* session s1 received its events in descending timestamp order, between
\* them one of session s2
C32_Witness ==
  /\ Len(inserted) = 3
  /\ inserted[1].session = "s1" /\ inserted[3].session = "s1"
  /\ inserted[2].session = "s2"
  /\ inserted[1].ts > inserted[3].ts
  /\ GetBySession("s1") = <<inserted[3], inserted[1]>>

----------------------------------------------------------------------------
\* C33: connect raises exactly when the client is already connected and then
\* leaves channel, stub, session id and sent RPCs as they were, otherwise it
\* leaves the client connected; close never raises, with or without a
\* channel, and always leaves the client not connected
C33_ConnectClose ==
  [][cliLast'.n # cliLast.n =>
       /\ cliLast'.op = "connect" =>
            /\ cliLast'.err = (IF cliConn THEN "already_connected" ELSE "none")
            /\ cliConn'
            /\ cliConn => UNCHANGED <<cliConn, cliSession, cliSent>>
       /\ cliLast'.op = "close" =>
            /\ cliLast'.err = "none"
            /\ ~cliConn'
            /\ UNCHANGED <<cliSession, cliSent>>]_vars

\* only connect and close were called, five times; a connect raised and the
\* last close left the client not connected
C33_Witness ==
  /\ cliLast.n = MaxClientCalls
  /\ cliLast.op = "close"
  /\ cliLast.seen = {"already_connected"}
  /\ cliSent = <<>>
  /\ ~cliConn

----------------------------------------------------------------------------
\* C34: broadcasts interleaved with subscriptions registering and detaching:
\* a broadcast on S appends its event to the queue of every subscription
\* registered on S at that moment and to no other queue and changes no
\* subscriber set, and at all times the subscriber set of S holds exactly the
\* subscriptions registered and not detached, and S is a key exactly when
\* that set is non-empty
C34_ConcurrentBroadcast ==
  /\ [][\A s \in Sessions : bcastLog'[s] # bcastLog[s] =>
          /\ \A c \in Subs :
               chan'[c] = IF c \in RegisteredOn(s)
                          THEN Append(chan[c], bcastLog'[s][Len(bcastLog'[s])])
                          ELSE chan[c]
          /\ UNCHANGED <<subscribers, subKeys>>]_vars
  /\ [](\A s \in Sessions :
          /\ subscribers[s] = RegisteredOn(s)
          /\ s \in subKeys <=> RegisteredOn(s) # {})

\* c2 registered on s1 after the first broadcast, received a later one and
\* detached, while c1 stayed registered and holds every broadcast since its
\* registration
C34_Witness ==
  /\ sub["c1"].pc = "live" /\ sub["c1"].s = "s1"
  /\ sub["c2"].pc = "closed" /\ sub["c2"].s = "s1"
  /\ regAt["c2"] >= 1
  /\ \E e \in Range(bcastLog["s1"]) : e \in Range(out["c2"])
  /\ Len(SinceReg("c1")) >= 2
  /\ Len(LiveStream("c1")) = Len(SinceReg("c1"))

----------------------------------------------------------------------------
\* C35: is_empty(S) is true exactly when dequeue has returned every event
\* enqueued for S; an event held in the peek slot has not been returned and
\* makes the session non-empty; a session nothing was enqueued for is empty
C35_IsEmpty ==
  \A s \in Sessions :
    /\ is_empty(s) <=> Range(enqLog[s]) \subseteq Range(retLog[s])
    /\ peeked[s] # None => ~is_empty(s) /\ peeked[s] \notin Range(retLog[s])
    /\ enqLog[s] = <<>> => is_empty(s)

\* s1 holds its last undelivered event in the peek slot, its queue is empty
\* and an earlier event was returned; s2 was never used
C35_Witness ==
  /\ peeked["s1"] # None
  /\ queues["s1"] = <<>>
  /\ retLog["s1"] # <<>>
  /\ enqLog["s2"] = <<>> /\ is_empty("s2")

----------------------------------------------------------------------------
\* the events a session still holds: the peek slot, then the queue
Held(s) == (IF peeked[s] # None THEN <<peeked[s]>> ELSE <<>>) \o queues[s]

\* C37: every event enqueued for S is either returned by dequeue once or
\* held once in the peek slot or the queue, never both and never twice, and
\* nothing is returned or held that was not enqueued
C37_Conservation ==
  \A s \in Sessions :
    /\ \A e \in Range(enqLog[s]) : Count(e, retLog[s]) + Count(e, Held(s)) = 1
    /\ Range(retLog[s]) \cup Range(Held(s)) \subseteq Range(enqLog[s])
    /\ Len(retLog[s]) + Len(Held(s)) = Len(enqLog[s])

\* of three events of s1 one was returned, one is in the peek slot and one
\* is in the queue
C37_Witness ==
  /\ Len(retLog["s1"]) = 1
  /\ peeked["s1"] # None
  /\ Len(queues["s1"]) = 1

----------------------------------------------------------------------------
\* the dequeue callers of S that a put has woken and that have not yet run
WokenOn(s) == {k \in DqTasks : dq[k].pc = "woken" /\ dq[k].s = s}

\* C36: a dequeue on an empty session waits for an enqueue, and no dequeue
\* stays blocked while its session holds an undelivered event: when no woken
\* caller of S is still to run, a caller waiting on S means is_empty(S)
C36_NoneBlockedWhileEvents ==
  \A k \in DqTasks :
    (dq[k].pc = "waiting" /\ WokenOn(dq[k].s) = {}) => is_empty(dq[k].s)

----------------------------------------------------------------------------
\* subscribe() as the async generator it is: the call only creates the
\* generator, its body starts to run when the consumer first awaits it

\* subscribe(session_id) is called: no line of the body has run; regAt notes
\* how many events had been broadcast on the session at the call
SubscribeCall(c, s) ==
  /\ FreeSub(c)
  /\ sub' = [sub EXCEPT ![c] = [pc |-> "called", s |-> s, hist |-> <<>>, n |-> 1]]
  /\ regAt' = [regAt EXCEPT ![c] = Len(bcastLog[s])]
  /\ UNCHANGED <<store, subscribers, subKeys, chan, lock, out, rpc, bcastLog, allMatched>>
  /\ UNCHANGED <<qvars, clock, cvars, xvars>>

\* the consumer awaits the stream for the first time: the body starts, takes
\* the session lock and fetches the history
SubscribeStart(c) ==
  /\ sub[c].pc = "called"
  /\ lock[sub[c].s] = "free"
  /\ lock' = [lock EXCEPT ![sub[c].s] = c]
  /\ sub' = [sub EXCEPT ![c].pc = "fetched", ![c].hist = GetBySession(sub[c].s)]
  /\ UNCHANGED <<store, subscribers, subKeys, chan, out, rpc, bcastLog, regAt, allMatched>>
  /\ UNCHANGED <<qvars, clock, cvars, xvars>>

LazySubscribeNext ==
  \/ \E s \in Sessions : BroadcastCall(s)
  \/ \E c \in Subs, s \in Sessions : SubscribeCall(c, s)
  \/ \E c \in Subs : SubscribeStart(c)
  \/ \E c \in Subs : Register(c)
  \/ \E c \in Subs : YieldMarker(c)
  \/ \E c \in Subs : YieldLive(c)
  \/ \E c \in Subs : Detach(c)

SpecLazySubscribe == BrokerInit /\ [][LazySubscribeNext]_vars

\* C38: from the moment subscribe(S) has been called the subscription is in
\* the subscriber set of S and counted by subscriber_count, and every event
\* broadcast on S since the call is in its queue although the consumer has
\* not awaited the stream yet
C38_RegisteredFromCall ==
  \A c \in Subs : sub[c].pc = "called" =>
    /\ c \in subscribers[sub[c].s]
    /\ subscriber_count(sub[c].s) >= 1
    /\ \A e \in Range(SinceReg(c)) : e \in Range(chan[c])

----------------------------------------------------------------------------
\* C39: a broadcast on S can always run to completion whatever the
\* subscribers of S have consumed (it waits only while a subscription that
\* is being set up holds the session lock), and a subscriber's backlog
\* keeps no event from another subscriber: each registered subscription has
\* received every event broadcast since it registered
C39_BroadcastCompletes ==
  /\ \A s \in Sessions :
       (clock <= MaxEvents /\ lock[s] = "free") => ENABLED BroadcastCall(s)
  /\ \A c \in Subs : Registered(c) => Len(LiveStream(c)) = Len(SinceReg(c))

\* c1 has consumed nothing and holds a backlog of two events, c2 on the same
\* session has consumed both of them
C39_Witness ==
  /\ sub["c1"].pc = "replay" /\ sub["c2"].pc = "live"
  /\ sub["c1"].s = sub["c2"].s
  /\ out["c1"] = <<>> /\ Len(chan["c1"]) >= 2
  /\ chan["c2"] = <<>>
  /\ \A e \in Range(chan["c1"]) : e \in Range(out["c2"])

----------------------------------------------------------------------------
\* SessionManager over a repository whose create can fail

\* create_session that caches the session before the repository raises
MutManagerCreateFails(desc, ts) ==
  /\ sessLast.n < MaxManagerCalls
  /\ Len(sessionRows) + 1 < MaxSessionIds
  /\ objCount' = objCount + 1
  /\ activeSessions' = ManagerCache(Len(sessionRows) + 1, objCount + 1)
  /\ sessLast' = [op |-> "create_failed", id |-> 0, st |-> "", ret |-> FALSE,
                  n |-> sessLast.n + 1]
  /\ UNCHANGED <<getLog, pvars, tvars>>
  /\ UNCHANGED <<qvars, clock, bvars, cvars, lvars, kvars, ivars, evars, rvars>>

\* SessionManager.create_session when self._session_repo.create raises: the
\* session object was built, no row was written, the exception leaves the
\* method before the cache is touched
ManagerCreateFails(desc, ts) ==
  /\ sessLast.n < MaxManagerCalls
  /\ Len(sessionRows) + 1 < MaxSessionIds
  /\ objCount' = objCount + 1
  /\ sessLast' = [op |-> "create_failed", id |-> 0, st |-> "", ret |-> FALSE,
                  n |-> sessLast.n + 1]
  /\ UNCHANGED <<activeSessions, getLog, pvars, tvars>>
  /\ UNCHANGED <<qvars, clock, bvars, cvars, lvars, kvars, ivars, evars, rvars>>

SessionsFailNext ==
  \/ \E d \in Descriptions, ts \in Timestamps : ManagerCreate(d, ts)
  \/ \E d \in Descriptions, ts \in Timestamps : ManagerCreateFails(d, ts)
  \/ \E id \in SessionIds : GetSession(id)
  \/ ManagerRestart

SpecSessionsFail == BrokerInit /\ [][SessionsFailNext]_vars

\* C40: every id in the SessionManager cache is the id of a stored row, and
\* a create_session whose store write fails returns no session and leaves
\* cache and sessions table as they were
C40_CacheIsPersisted ==
  /\ [](\A i \in SessionIds : activeSessions[i] # 0 => i \in RowIds)
  /\ [][sessLast'.n # sessLast.n /\ sessLast'.op = "create_failed" =>
          /\ ~sessLast'.ret
          /\ UNCHANGED <<activeSessions, sessionRows, sessionStatus, sessionDesc>>]_vars

\* a create_session has failed after another had succeeded and is cached
C40_Witness ==
  /\ sessLast.op = "create_failed"
  /\ Len(sessionRows) >= 1
  /\ \E i \in RowIds : activeSessions[i] # 0

====
